---------------------------- MODULE Spec2Model ----------------------------
(***************************************************************************)
(* SpaceWrapper: whitespace normaliser with a protect / normalise /        *)
(* restore pipeline.  The repository holds two revisions of the class:     *)
(*   src/script.js          the basic pipeline   (__PROTECTED_n__ tokens)  *)
(*   src/unnamed/part_000   the structure-aware pipeline (__STRUCTURED_n__,*)
(*                          __MULTILINE_BLOCK_n__, __HTML_BLOCK_n__)       *)
(* The variable `pipeline' says which revision an instance runs.           *)
(*                                                                         *)
(* A text is a sequence of characters.  A character is a one-character     *)
(* string.  A token marker is kept as ONE element of the text, the string  *)
(* the code builds ("__STRUCTURED_1__"): all its characters are word       *)
(* characters, no protection regex can match a part of it, and Len gives   *)
(* its number of JavaScript characters.  Input alphabets contain no bare   *)
(* underscore, so a marker never arises from separate characters.          *)
(***************************************************************************)
EXTENDS Integers, Sequences, FiniteSets, TLC

VARIABLES
    pipeline,         \* "basic" (script.js) or "structured" (part_000)
    mode,             \* this.mode
    inputText,        \* this.inputText.value
    outputText,       \* this.outputText.textContent
    protectedMap,     \* this.protectedMap: insertion-ordered <<token, original>> entries
    nextTokenId,      \* this.nextTokenId
    copyDisabled,     \* this.copyBtn.disabled
    warningShown,     \* this.warningBanner.style.display = 'flex'
    outputStats,      \* [words, chars, removed]: the three output counters
    verification,     \* [word, char, content]: TRUE is the check mark
    lastCall          \* history: what the last processText call did

vars == <<pipeline, mode, inputText, outputText, protectedMap, nextTokenId,
          copyDisabled, warningShown, outputStats, verification, lastCall>>

-----------------------------------------------------------------------------
(* Bounds *)

\* Largest token id the marker sets below enumerate.
MaxTokenId == 12

\* Largest number of fragments of an input text of the pipeline specification.
MaxFrags == 3

\* The most lines a text handed to a mode engine on its own may have.
MaxLines == 4

\* The most fragments an input text with carriage returns is made of.
MaxCrFrags == 4

-----------------------------------------------------------------------------
(* Characters and character classes *)

Lower == {"a","b","c","d","e","f","g","h","i","j","k","l","m",
          "n","o","p","q","r","s","t","u","v","w","x","y","z"}
Digit == {"0","1","2","3","4","5","6","7","8","9"}

\* \w of a JavaScript regex (upper-case letters occur only inside markers).
WordCh == Lower \cup Digit \cup {"_"}

\* \s of a JavaScript regex, String.prototype.trim: the ASCII members.
Space == {" ", "\t", "\n", "\r", "\f"}

\* Line terminators: what '.' refuses and what ^ and $ look at under /m.
LineTerm == {"\n", "\r"}

\* The backtick (U+0060).  A TLA+ string cannot hold one, so the character is
\* written "^" here; the caret itself is not in any input alphabet, and like the
\* backtick it is neither a word character nor white space.
BT == "^"

Tok(prefix, id) == prefix \o ToString(id) \o "__"

ProtectedTokens  == {Tok("__PROTECTED_", i) : i \in 1..MaxTokenId}
StructuredTokens == {Tok("__STRUCTURED_", i) : i \in 1..MaxTokenId}
MultilineTokens  == {Tok("__MULTILINE_BLOCK_", i) : i \in 1..MaxTokenId}
HtmlTokens       == {Tok("__HTML_BLOCK_", i) : i \in 1..MaxTokenId}
AllTokens == ProtectedTokens \cup StructuredTokens \cup MultilineTokens \cup HtmlTokens

IsToken(c) == Len(c) > 1

-----------------------------------------------------------------------------
(* Sequences of characters *)

Max(a, b) == IF a >= b THEN a ELSE b

\* The element of a one-element set.  A chain of stages is written as a chain of
\* one-element sets, {g(y) : y \in {f(x)}}: each stage is evaluated once, before
\* the next one starts.
The(S) == CHOOSE x \in S : TRUE

RECURSIVE Flatten(_)
Flatten(ss) == IF Len(ss) = 0 THEN <<>> ELSE Head(ss) \o Flatten(Tail(ss))

\* Array.prototype.join
RECURSIVE Join(_, _)
Join(parts, sep) ==
    IF Len(parts) = 0 THEN <<>>
    ELSE IF Len(parts) = 1 THEN parts[1]
    ELSE parts[1] \o sep \o Join(Tail(parts), sep)

Indices(s) == [k \in 1..Len(s) |-> k]

\* The indices of s, in order, at which Test holds.
Positions(s, Test(_)) == SelectSeq(Indices(s), Test)

\* The pieces of s between the separators, separator j being s[from[j]..to[j]].
Pieces(s, from, to) ==
    [j \in 1..(Len(from) + 1) |->
        SubSeq(s, IF j = 1 THEN 1 ELSE to[j - 1] + 1,
                  IF j > Len(from) THEN Len(s) ELSE from[j] - 1)]

\* String.prototype.split on one character
Split(s, ch) ==
    LET seps == Positions(s, LAMBDA k : s[k] = ch)
    IN Pieces(s, seps, seps)

SplitLines(s) == Split(s, "\n")

\* String.prototype.trimEnd / trimStart / trim
RECURSIVE TrimEnd(_)
TrimEnd(s) ==
    IF Len(s) > 0 /\ s[Len(s)] \in Space THEN TrimEnd(SubSeq(s, 1, Len(s) - 1)) ELSE s

RECURSIVE TrimStart(_)
TrimStart(s) ==
    IF Len(s) > 0 /\ s[1] \in Space THEN TrimStart(Tail(s)) ELSE s

Trim(s) == TrimStart(TrimEnd(s))

\* replace(/[set]+/g, ' '): every maximal run of characters of `set' becomes one
\* space (the last character of the run is the one kept, as a space)
CollapseRuns(s, set) ==
    LET kept == Positions(s, LAMBDA k : ~(s[k] \in set /\ k < Len(s) /\ s[k + 1] \in set))
    IN [j \in 1..Len(kept) |-> IF s[kept[j]] \in set THEN " " ELSE s[kept[j]]]

\* replace(/[set]/g, ' '): every character of `set' becomes a space
MapToSpace(s, set) == [k \in 1..Len(s) |-> IF s[k] \in set THEN " " ELSE s[k]]

\* replace(/[set]/g, ''): the characters of `set' are dropped
Drop(s, set) == SelectSeq(s, LAMBDA c : c \notin set)

\* String.prototype.includes for a marker prefix: some element is a marker of the set
Includes(s, toks) == \E k \in 1..Len(s) : s[k] \in toks

-----------------------------------------------------------------------------
(* Regular expressions.  A regex is a sequence of nodes, matched with       *)
(* JavaScript's backtracking order: alternatives left to right, a greedy    *)
(* quantifier longest first, a lazy one shortest first.                     *)

L(c)       == [t |-> "cls", neg |-> FALSE, set |-> {c}]
In(set)    == [t |-> "cls", neg |-> FALSE, set |-> set]
NotIn(set) == [t |-> "cls", neg |-> TRUE, set |-> set]
Dot        == NotIn(LineTerm)                  \* .
All        == NotIn({})                        \* [\s\S]
Bol        == [t |-> "bol"]                    \* ^ under /m
Eol        == [t |-> "eol"]                    \* $ under /m
WordB      == [t |-> "wb"]                     \* \b
Str(cs)    == <<[t |-> "str", cs |-> cs]>>       \* a literal string
Unbounded  == 0 - 1
Rep(sub, min, max, greedy) ==
    [t |-> "rep", sub |-> sub, min |-> min, max |-> max, greedy |-> greedy]
Star(sub)     == Rep(sub, 0, Unbounded, TRUE)
Plus(sub)     == Rep(sub, 1, Unbounded, TRUE)
Opt(sub)      == Rep(sub, 0, 1, TRUE)
LazyStar(sub) == Rep(sub, 0, Unbounded, FALSE)
Alt(alts)     == [t |-> "alt", alts |-> alts]

\* A marker element stands for a run of word characters: it is in a class exactly
\* when "_" is (every class below that holds "_" holds the letters and digits too).
InCls(n, c) == IF IsToken(c) THEN ("_" \in n.set) # n.neg ELSE (c \in n.set) # n.neg

IsWordAt(s, k) == k >= 1 /\ k <= Len(s) /\ (IsToken(s[k]) \/ s[k] \in WordCh)

\* The index after the longest run of characters of class n that starts at index i
\* and has at most max characters.
RunEnd(n, s, i, max) ==
    LET last == IF max = Unbounded \/ i + max > Len(s) + 1 THEN Len(s) + 1 ELSE i + max
        stops == {k \in i..(last - 1) : ~InCls(n, s[k])}
    IN IF stops = {} THEN last ELSE CHOOSE k \in stops : \A k2 \in stops : k <= k2

\* Match(re, s, i): the index after the match of re that starts at index i of s,
\* or 0 when re does not match there.
RECURSIVE Match(_, _, _)
Match(re, s, i) ==
    IF Len(re) = 0 THEN i
    ELSE LET n == Head(re)
             rest == Tail(re)
         IN CASE n.t = "cls" ->
                   IF i <= Len(s) /\ InCls(n, s[i]) THEN Match(rest, s, i + 1) ELSE 0
              [] n.t = "str" ->
                   IF i + Len(n.cs) - 1 <= Len(s) /\ SubSeq(s, i, i + Len(n.cs) - 1) = n.cs
                   THEN Match(rest, s, i + Len(n.cs)) ELSE 0
              [] n.t = "bol" ->
                   IF i = 1 \/ s[i - 1] \in LineTerm THEN Match(rest, s, i) ELSE 0
              [] n.t = "eol" ->
                   IF i = Len(s) + 1 \/ s[i] \in LineTerm THEN Match(rest, s, i) ELSE 0
              [] n.t = "wb" ->
                   IF IsWordAt(s, i - 1) # IsWordAt(s, i) THEN Match(rest, s, i) ELSE 0
              [] n.t = "alt" ->
                   \* the first alternative with which the rest matches
                   LET ok == {a \in 1..Len(n.alts) : Match(n.alts[a] \o rest, s, i) # 0}
                   IN IF ok = {} THEN 0
                      ELSE Match(n.alts[CHOOSE a \in ok : \A a2 \in ok : a <= a2] \o rest, s, i)
              [] n.t = "rep" /\ Len(n.sub) = 1 /\ n.sub[1].t = "cls" ->
                   \* a quantified character class: the run lengths the quantifier
                   \* allows, tried longest first (greedy) or shortest first (lazy)
                   LET ok == {j \in (i + n.min)..RunEnd(n.sub[1], s, i, n.max) :
                                 Match(rest, s, j) # 0}
                   IN IF ok = {} THEN 0
                      ELSE Match(rest, s,
                                 IF n.greedy THEN CHOOSE j \in ok : \A j2 \in ok : j2 <= j
                                 ELSE CHOOSE j \in ok : \A j2 \in ok : j <= j2)
              [] OTHER ->
                   \* a quantified group
                   LET again == Rep(n.sub, Max(0, n.min - 1),
                                    IF n.max = Unbounded THEN Unbounded ELSE n.max - 1,
                                    n.greedy)
                       more == IF n.max = 0 \/ i > Len(s) THEN 0
                               ELSE Match(n.sub \o <<again>> \o rest, s, i)
                       skip == IF n.min = 0 THEN Match(rest, s, i) ELSE 0
                   IN IF n.greedy
                      THEN (IF more # 0 THEN more ELSE skip)
                      ELSE (IF skip # 0 THEN skip ELSE more)

-----------------------------------------------------------------------------
(* The protection rules *)

\* (?:\s[^>]*)?>   the attribute part and the end of an opening tag
TagRest == <<Opt(<<In(Space), Star(<<NotIn({">"})>>)>>), L(">")>>

\* <(tag)(?:\s[^>]*)?> body <\/\2>  for one tag name; \2 repeats the tag name
Element(tag, body) ==
    <<L("<")>> \o Str(tag) \o TagRest \o <<body>> \o Str(<<"<", "/">>) \o Str(tag) \o <<L(">")>>

\* part_000:251  /(```[^`\n]*\n[\s\S]*?\n```|~~~[^~\n]*\n[\s\S]*?\n~~~)/g
Fence(q) ==
    Str(<<q, q, q>>) \o <<Star(<<NotIn({q, "\n"})>>), L("\n"), LazyStar(<<All>>), L("\n")>>
        \o Str(<<q, q, q>>)
codeBlockRegex == <<Alt(<<Fence(BT), Fence("~")>>)>>

\* part_000:260  /(<(pre|code|div|section|article|header|footer|nav|aside|main|figure)
\*                 (?:\s[^>]*)?>[\s\S]*?<\/\2>)/gi
BlockTags == << <<"p","r","e">>, <<"c","o","d","e">>, <<"d","i","v">>,
                <<"s","e","c","t","i","o","n">>, <<"a","r","t","i","c","l","e">>,
                <<"h","e","a","d","e","r">>, <<"f","o","o","t","e","r">>, <<"n","a","v">>,
                <<"a","s","i","d","e">>, <<"m","a","i","n">>, <<"f","i","g","u","r","e">> >>
htmlBlockRegex ==
    <<Alt([k \in 1..Len(BlockTags) |-> Element(BlockTags[k], LazyStar(<<All>>))])>>

\* part_000:269  /(<(script|style)(?:\s[^>]*)?>[\s\S]*?<\/\2>)/gi
ScriptTags == << <<"s","c","r","i","p","t">>, <<"s","t","y","l","e">> >>
scriptStyleRegex ==
    <<Alt([k \in 1..Len(ScriptTags) |-> Element(ScriptTags[k], LazyStar(<<All>>))])>>

\* part_000:168  /^(#{1,6}\s+.*)$/gm
markdownHeading == <<Bol, Rep(<<L("#")>>, 1, 6, TRUE), Plus(<<In(Space)>>), Star(<<Dot>>), Eol>>

\* part_000:173  /^(<(h[1-6]|title)(?:\s[^>]*)?>.*?<\/\2>)$/gmi
HeadingTags == << <<"h","1">>, <<"h","2">>, <<"h","3">>, <<"h","4">>, <<"h","5">>,
                  <<"h","6">>, <<"t","i","t","l","e">> >>
htmlHeading ==
    <<Bol, Alt([k \in 1..Len(HeadingTags) |-> Element(HeadingTags[k], LazyStar(<<Dot>>))]), Eol>>

\* part_000:178  /^(\s*)([\*\-\+]|\d+\.|[a-z]\.)\s+.*$/gm
listItem ==
    <<Bol, Star(<<In(Space)>>),
      Alt(<< <<In({"*", "-", "+"})>>, <<Plus(<<In(Digit)>>), L(".")>>, <<In(Lower), L(".")>> >>),
      Plus(<<In(Space)>>), Star(<<Dot>>), Eol>>

\* part_000:183  /^(\s*)<li(?:\s[^>]*)?>.*?<\/li>$/gmi
htmlListItem ==
    <<Bol, Star(<<In(Space)>>)>> \o Element(<<"l","i">>, LazyStar(<<Dot>>)) \o <<Eol>>

\* part_000:188  /^(>\s+.*)$/gm
blockquote == <<Bol, L(">"), Plus(<<In(Space)>>), Star(<<Dot>>), Eol>>

\* part_000:193  /^(\*\*\*|---|___)\s*$/gm
horizontalRule ==
    <<Bol, Alt(<<Str(<<"*","*","*">>), Str(<<"-","-","-">>), Str(<<"_","_","_">>)>>),
      Star(<<In(Space)>>), Eol>>

\* part_000:198  /^(\|.*\|)$/gm
tableRow == <<Bol, L("|"), Star(<<Dot>>), L("|"), Eol>>

\* part_000:203  /^(<\/?[a-z][^>]*>)$/gmi
htmlTag == <<Bol, L("<"), Opt(<<L("/")>>), In(Lower), Star(<<NotIn({">"})>>), L(">"), Eol>>

\* part_000:208, script.js:166  /(https?:\/\/[^\s]+|www\.[^\s]+\.[^\s]+)/gi
urlRegex ==
    <<Alt(<< Str(<<"h","t","t","p">>) \o <<Opt(<<L("s")>>)>> \o Str(<<":","/","/">>)
                 \o <<Plus(<<NotIn(Space)>>)>>,
             Str(<<"w","w","w",".">>) \o <<Plus(<<NotIn(Space)>>), L("."), Plus(<<NotIn(Space)>>)>>
          >>)>>

\* part_000:213, script.js:171  /\b[\w.%+-]+@[\w.-]+\.[a-zA-Z]{2,}\b/gi
emailRegex ==
    <<WordB, Plus(<<In(WordCh \cup {".", "%", "+", "-"})>>), L("@"),
      Plus(<<In(WordCh \cup {".", "-"})>>), L("."), Rep(<<In(Lower)>>, 2, Unbounded, TRUE), WordB>>

\* part_000:218, script.js:176  /`([^`]+)`/g
inlineCode == <<L(BT), Plus(<<NotIn({BT})>>), L(BT)>>

\* part_000:223, script.js:181  /(?:[a-zA-Z]:)?(?:[\\\/][\w\s\.-]+)+/g
filePath ==
    <<Opt(<<In(Lower), L(":")>>),
      Plus(<<In({"\\", "/"}), Plus(<<In(WordCh \cup Space \cup {".", "-"})>>)>>)>>

-----------------------------------------------------------------------------
(* The protection table and the protector *)

StructureMarkers == StructuredTokens \cup MultilineTokens \cup HtmlTokens

\* The non-empty matches of re in s, as <<start, index after the end>> pairs, one
\* for every start index at which re matches.
Candidates(re, s) ==
    {c \in {<<k, Match(re, s, k)>> : k \in 1..Len(s)} : c[2] > c[1]}

\* The matches a /g regex finds: leftmost first, each search starting where the
\* match before it ended.
RECURSIVE Leftmost(_, _)
Leftmost(cands, i) ==
    LET later == {c \in cands : c[1] >= i}
    IN IF later = {} THEN <<>>
       ELSE LET c == CHOOSE c1 \in later : \A c2 \in later : c1[1] <= c2[1]
            IN <<c>> \o Leftmost(cands, c[2])

\* text.replace(regex, callback) with a /g regex, as the protectors call it: every
\* match is handed to the callback, which returns the match itself when it holds a
\* marker of `guard', and otherwise issues the next token, stores the match under
\* it (Map.prototype.set: the token is new, the entry goes last) and returns it.
\* ctx = [text, map, id]: the text, this.protectedMap, this.nextTokenId.
ReplaceMatches(re, guard, prefix, ctx, ms) ==
    LET s == ctx.text
        Matched(j) == SubSeq(s, ms[j][1], ms[j][2] - 1)
        issued == SelectSeq([j \in 1..Len(ms) |-> j], LAMBDA j : ~Includes(Matched(j), guard))
        Token(j) == Tok(prefix, ctx.id - 1 + Len(SelectSeq(issued, LAMBDA j2 : j2 <= j)))
        pieces == Pieces(s, [j \in 1..Len(ms) |-> ms[j][1]], [j \in 1..Len(ms) |-> ms[j][2] - 1])
    IN [text |-> Flatten([j \in 1..(2 * Len(ms) + 1) |->
                            IF j % 2 = 1 THEN pieces[(j + 1) \div 2]
                            ELSE IF Includes(Matched(j \div 2), guard)
                                 THEN Matched(j \div 2)
                                 ELSE <<Token(j \div 2)>>]),
        map |-> ctx.map \o [j \in 1..Len(issued) |->
                               [token |-> Token(issued[j]), original |-> Matched(issued[j])]],
        id |-> ctx.id + Len(issued)]

\* A rule that issues its tokens and leaves the counter where it was.
ApplyRuleSameId(re, guard, prefix, ctx) ==
    [The({ReplaceMatches(re, guard, prefix, ctx, ms) :
             ms \in {Leftmost(Candidates(re, ctx.text), 1)}}) EXCEPT !.id = ctx.id]

ApplyRule(re, guard, prefix, ctx) ==
    The({ReplaceMatches(re, guard, prefix, ctx, ms) : ms \in {Leftmost(Candidates(re, ctx.text), 1)}})

\* part_000:247-278.  The three block rules have no marker guard.
protectMultiLineBlocks(ctx) ==
    LET code == {ApplyRule(codeBlockRegex, {}, "__MULTILINE_BLOCK_", ctx)}
        html == {ApplyRule(htmlBlockRegex, {}, "__HTML_BLOCK_", c) : c \in code}
    IN The({ApplyRule(scriptStyleRegex, {}, "__HTML_BLOCK_", c) : c \in html})

\* part_000:165-226: the single-line and inline rules, in order
StructurePatterns ==
    <<markdownHeading, htmlHeading, listItem, htmlListItem, blockquote, horizontalRule,
      tableRow, htmlTag, urlRegex, emailRegex, inlineCode, filePath>>

\* script.js:163-184
BasicPatterns == <<urlRegex, emailRegex, inlineCode, filePath>>

\* patterns.forEach(...): the result of the first n rules, as a one-element set
RECURSIVE ApplyRules(_, _, _, _, _)
ApplyRules(patterns, n, guard, prefix, ctx) ==
    IF n = 0 THEN {ctx}
    ELSE {ApplyRule(patterns[n], guard, prefix, c) :
             c \in ApplyRules(patterns, n - 1, guard, prefix, ctx)}

\* part_000:158-245
protectStructureAndContent(ctx) ==
    The(UNION {ApplyRules(StructurePatterns, Len(StructurePatterns), AllTokens,
                          "__STRUCTURED_", c) : c \in {protectMultiLineBlocks(ctx)}})

\* script.js:158-204
protectContent(ctx) ==
    The(ApplyRules(BasicPatterns, Len(BasicPatterns), ProtectedTokens, "__PROTECTED_", ctx))

-----------------------------------------------------------------------------
(* The restorer *)

\* The replacement patterns of String.prototype.replace with a string replacement:
\* $$ is a dollar, $& the matched text, $ + backtick the text before the match,
\* $' the text after it.  The token regex has no capture group, so $1 .. $99 and
\* every other $ stay as written.
RECURSIVE Expand(_, _, _, _)
Expand(repl, matched, before, after) ==
    LET at == {k \in 1..(Len(repl) - 1) : repl[k] = "$" /\ repl[k + 1] \in {"$", "&", BT, "'"}}
    IN IF at = {} THEN repl
       ELSE LET k == CHOOSE k1 \in at : \A k2 \in at : k1 <= k2
            IN SubSeq(repl, 1, k - 1)
               \o (CASE repl[k + 1] = "$" -> <<"$">>
                     [] repl[k + 1] = "&" -> matched
                     [] repl[k + 1] = BT  -> before
                     [] repl[k + 1] = "'" -> after)
               \o Expand(SubSeq(repl, k + 2, Len(repl)), matched, before, after)

\* restored.replace(new RegExp(escapeRegExp(token), 'g'), original)
ReplaceToken(s, token, original) ==
    LET at == Positions(s, LAMBDA k : s[k] = token)
        pieces == Pieces(s, at, at)
    IN Flatten([j \in 1..(2 * Len(at) + 1) |->
                  IF j % 2 = 1 THEN pieces[(j + 1) \div 2]
                  ELSE Expand(original, <<token>>,
                              SubSeq(s, 1, at[j \div 2] - 1),
                              SubSeq(s, at[j \div 2] + 1, Len(s)))])

\* The text after the first n entries have been restored, as a one-element set
RECURSIVE RestoreInOrder(_, _, _)
RestoreInOrder(entries, n, text) ==
    IF n = 0 THEN {text}
    ELSE {ReplaceToken(t, entries[n].token, entries[n].original) :
             t \in RestoreInOrder(entries, n - 1, text)}

\* Array.prototype.sort((a, b) => b.length - a.length): stable, longest token first
RECURSIVE InsertByLength(_, _)
InsertByLength(sorted, e) ==
    IF Len(sorted) = 0 THEN <<e>>
    ELSE IF Len(Head(sorted).token) >= Len(e.token)
         THEN <<Head(sorted)>> \o InsertByLength(Tail(sorted), e)
         ELSE <<e>> \o sorted

RECURSIVE SortLongestFirst(_)
SortLongestFirst(entries) ==
    IF Len(entries) = 0 THEN <<>>
    ELSE InsertByLength(SortLongestFirst(SubSeq(entries, 1, Len(entries) - 1)),
                        entries[Len(entries)])

\* part_000:531-546
restoreProtectedContent(text, map) ==
    The(UNION {RestoreInOrder(sorted, Len(sorted), text) : sorted \in {SortLongestFirst(map)}})

\* script.js:206-215: Map.prototype.forEach, insertion order
restoreProtectedContentBasic(text, map) == The(RestoreInOrder(map, Len(map), text))

-----------------------------------------------------------------------------
(* The structure-aware pipeline (part_000) *)

\* line.includes('__STRUCTURED_') || line.includes('__MULTILINE_BLOCK_') ||
\* line.includes('__HTML_BLOCK_')
IsProtectedLine(line) == Includes(line, StructureMarkers)

\* part_000:292-302, one unprotected line
NormalizeLine(line) ==
    TrimEnd(MapToSpace(CollapseRuns(line, {" ", "\t"}), {"\r", "\f"}))

\* part_000:280-308
normalizeWhitespaceWithStructure(text) ==
    LET lines == SplitLines(text)
    IN Join([k \in 1..Len(lines) |->
                IF IsProtectedLine(lines[k]) THEN lines[k] ELSE NormalizeLine(lines[k])],
            <<"\n">>)

\* A flush that glues the lines of the paragraph with nothing between them.
FlushGlued(processed, para) ==
    IF Len(para) > 0 THEN Append(processed, Join(para, <<>>)) ELSE processed

\* processedLines.push(currentParagraph.join(' ')) when a paragraph is open
Flush(processed, para) ==
    IF Len(para) > 0 THEN Append(processed, Join(para, <<" ">>)) ELSE processed

\* while (a.length > 0 && a[0] === '') a.shift(), and the same with pop()
RECURSIVE ShiftBlank(_)
ShiftBlank(ls) == IF Len(ls) > 0 /\ ls[1] = <<>> THEN ShiftBlank(Tail(ls)) ELSE ls

RECURSIVE PopBlank(_)
PopBlank(ls) ==
    IF Len(ls) > 0 /\ ls[Len(ls)] = <<>> THEN PopBlank(SubSeq(ls, 1, Len(ls) - 1)) ELSE ls

\* part_000:316-350: the loop of processModeAWithStructure and its final flush
RECURSIVE ModeALoop(_, _, _, _)
ModeALoop(lines, i, processed, para) ==
    IF i > Len(lines) THEN Flush(processed, para)
    ELSE LET line == lines[i]
             trimmed == Trim(line)
             shouldPreserve == IsProtectedLine(line)
             flushed == Flush(processed, para)
         IN IF shouldPreserve \/ trimmed = <<>>
            THEN ModeALoop(lines, i + 1,
                           IF shouldPreserve THEN Append(flushed, line)
                           ELSE IF Len(flushed) > 0 /\ flushed[Len(flushed)] # <<>>
                                THEN Append(flushed, <<>>)
                                ELSE flushed,
                           <<>>)
            ELSE ModeALoop(lines, i + 1, processed, Append(para, trimmed))

\* part_000:310-361
processModeAWithStructure(text) ==
    Join(PopBlank(ShiftBlank(ModeALoop(SplitLines(text), 1, <<>>, <<>>))), <<"\n">>)

\* part_000:369-403: the loop of processModeBWithStructure and its final flush
RECURSIVE ModeBLoop(_, _, _, _)
ModeBLoop(lines, i, processed, para) ==
    IF i > Len(lines) THEN Flush(processed, para)
    ELSE LET line == lines[i]
             trimmed == Trim(line)
             isStructural == IsProtectedLine(line)
         IN IF trimmed = <<>>
            THEN ModeBLoop(lines, i + 1, Append(Flush(processed, para), <<>>), <<>>)
            ELSE IF isStructural
                 THEN ModeBLoop(lines, i + 1, Append(Flush(processed, para), line), <<>>)
                 ELSE ModeBLoop(lines, i + 1, processed, Append(para, trimmed))

\* part_000:405-419: consecutive blank lines become one
RECURSIVE DedupBlank(_, _, _)
DedupBlank(ls, i, lastWasBlank) ==
    IF i > Len(ls) THEN <<>>
    ELSE IF ls[i] = <<>>
         THEN (IF lastWasBlank THEN <<>> ELSE << <<>> >>) \o DedupBlank(ls, i + 1, TRUE)
         ELSE <<ls[i]>> \o DedupBlank(ls, i + 1, FALSE)

\* A mode B engine that returns the text as it is.
processModeBKept(text) == text

\* part_000:363-430
processModeBWithStructure(text) ==
    Join(PopBlank(ShiftBlank(DedupBlank(ModeBLoop(SplitLines(text), 1, <<>>, <<>>), 1, FALSE))),
         <<"\n">>)

\* part_000:438-465: the first loop of processModeCWithStructure and its final flush
RECURSIVE ModeCLoop(_, _, _, _)
ModeCLoop(lines, i, processed, content) ==
    IF i > Len(lines) THEN Flush(processed, content)
    ELSE LET line == lines[i]
             trimmed == Trim(line)
         IN IF IsProtectedLine(line)
            THEN ModeCLoop(lines, i + 1, Append(Flush(processed, content), line), <<>>)
            ELSE IF trimmed # <<>>
                 THEN ModeCLoop(lines, i + 1, processed, Append(content, trimmed))
                 ELSE ModeCLoop(lines, i + 1, processed, content)

\* part_000:468-486: the second loop, fusing a plain line onto a preceding plain line
RECURSIVE ModeCFuse(_, _, _)
ModeCFuse(ls, i, result) ==
    IF i > Len(ls) THEN result
    ELSE LET line == ls[i]
         IN IF IsProtectedLine(line)
            THEN ModeCFuse(ls, i + 1, Append(result, line))
            ELSE IF Trim(line) # <<>>
                 THEN IF Len(result) > 0 /\ ~IsProtectedLine(result[Len(result)])
                      THEN ModeCFuse(ls, i + 1,
                                     [result EXCEPT ![Len(result)] = @ \o <<" ">> \o Trim(line)])
                      ELSE ModeCFuse(ls, i + 1, Append(result, Trim(line)))
                 ELSE ModeCFuse(ls, i + 1, result)

\* A mode C engine that returns the text as it is.
processModeCKept(text) == text

\* part_000:432-489
processModeCWithStructure(text) ==
    Join(ModeCFuse(ModeCLoop(SplitLines(text), 1, <<>>, <<>>), 1, <<>>), <<"\n">>)

\* part_000:496-517: the loop of finalCleanupWithStructure
RECURSIVE CleanupLoop(_, _)
CleanupLoop(lines, i) ==
    IF i > Len(lines) THEN <<>>
    ELSE LET isProtected == IsProtectedLine(lines[i])
             line == IF ~isProtected /\ Trim(lines[i]) # <<>>
                     THEN Trim(CollapseRuns(lines[i], {" "}))
                     ELSE lines[i]
         IN (IF line # <<>> \/ isProtected THEN <<line>> ELSE <<>>) \o CleanupLoop(lines, i + 1)

\* part_000:491-529
finalCleanupWithStructure(text) ==
    Join(PopBlank(CleanupLoop(SplitLines(text), 1)), <<"\n">>)

-----------------------------------------------------------------------------
(* The basic pipeline (script.js) *)

\* replace(/\r\n/g, '\n').replace(/\r/g, '\n')
UnifyLineEndings(s) ==
    LET kept == Positions(s, LAMBDA k : ~(s[k] = "\r" /\ k < Len(s) /\ s[k + 1] = "\n"))
    IN [j \in 1..Len(kept) |-> IF s[kept[j]] = "\r" THEN "\n" ELSE s[kept[j]]]

\* script.js:221-232
normalizeWhitespace(text) ==
    UnifyLineEndings(CollapseRuns(MapToSpace(text, {"\t", "\r", "\f"}), {" "}))

\* script.js:234-248
processModeA(text) == Trim(CollapseRuns(MapToSpace(text, {"\n"}), {" "}))

\* text.split(/\n\s*\n/): a separator is a newline, white space, and a newline; the
\* greedy \s* makes it end at the last newline of the white-space run.
SpaceRunEnd(s, i) ==
    LET stops == {k \in (i + 1)..Len(s) : s[k] \notin Space}
    IN IF stops = {} THEN Len(s) ELSE (CHOOSE k \in stops : \A k2 \in stops : k <= k2) - 1

\* The end of the separator that starts at index i, or 0.
SeparatorEnd(s, i) ==
    LET c == {j \in (i + 1)..SpaceRunEnd(s, i) : s[j] = "\n"}
    IN IF s[i] # "\n" \/ c = {} THEN 0 ELSE CHOOSE j \in c : \A j2 \in c : j2 <= j

RECURSIVE SplitBlankFrom(_, _)
SplitBlankFrom(s, i) ==
    LET starts == {k \in i..Len(s) : SeparatorEnd(s, k) # 0}
    IN IF starts = {} THEN <<SubSeq(s, i, Len(s))>>
       ELSE LET k == CHOOSE k1 \in starts : \A k2 \in starts : k1 <= k2
            IN <<SubSeq(s, i, k - 1)>> \o SplitBlankFrom(s, SeparatorEnd(s, k) + 1)

\* Array.prototype.filter(x => x.trim())
FilterNonBlank(parts) == SelectSeq(parts, LAMBDA part : Trim(part) # <<>>)

\* part_000:123-126, script.js:123-126
splitIntoBatches(text) == FilterNonBlank(SplitBlankFrom(text, 1))

\* script.js:250-268
processModeB(text) ==
    LET paragraphs == splitIntoBatches(text)
    IN Join([k \in 1..Len(paragraphs) |->
                Trim(CollapseRuns(MapToSpace(paragraphs[k], {"\n"}), {" "}))],
            <<"\n", "\n">>)

\* script.js:270-284
processModeC(text) == Trim(CollapseRuns(Drop(text, {"\n"}), Space))

\* script.js:286-297
finalCleanup(text) == Trim(CollapseRuns(text, {" "}))

-----------------------------------------------------------------------------
(* Batches *)

Pipelines == {"basic", "structured"}

\* The values of the three mode radio buttons, and one value that is none of them.
KnownModes == {"A", "B", "C"}
Modes == KnownModes \cup {"X"}

\* part_000:135-149: switch (this.mode), default: processed = normalized
ApplyModeWithStructure(m, normalized) ==
    CASE m = "A" -> processModeAWithStructure(normalized)
      [] m = "B" -> processModeBWithStructure(normalized)
      [] m = "C" -> processModeCWithStructure(normalized)
      [] OTHER   -> normalized

\* script.js:135-149
ApplyMode(m, normalized) ==
    CASE m = "A" -> processModeA(normalized)
      [] m = "B" -> processModeB(normalized)
      [] m = "C" -> processModeC(normalized)
      [] OTHER   -> normalized

\* part_000:128-156.  Result: [text, map, id], the processed batch and the table
\* and counter the call leaves behind.
processBatch(batch, m, map, id) ==
    LET protected  == {protectStructureAndContent([text |-> batch, map |-> map, id |-> id])}
        normalized == {[c EXCEPT !.text = normalizeWhitespaceWithStructure(@)] : c \in protected}
        processed  == {[c EXCEPT !.text = ApplyModeWithStructure(m, @)] : c \in normalized}
        restored   == {[c EXCEPT !.text = restoreProtectedContent(@, c.map)] : c \in processed}
    IN The({[c EXCEPT !.text = finalCleanupWithStructure(@)] : c \in restored})

\* script.js:128-156
processBatchBasic(batch, m, map, id) ==
    LET protected  == {protectContent([text |-> batch, map |-> map, id |-> id])}
        normalized == {[c EXCEPT !.text = normalizeWhitespace(@)] : c \in protected}
        processed  == {[c EXCEPT !.text = ApplyMode(m, @)] : c \in normalized}
        restored   == {[c EXCEPT !.text = restoreProtectedContentBasic(@, c.map)] : c \in processed}
    IN The({[c EXCEPT !.text = finalCleanup(@)] : c \in restored})

\* batches.map(batch => this.processBatch(batch)): in order, on the shared table.
\* The outputs, table and counter after the first n batches, as a one-element set.
RECURSIVE MapBatches(_, _, _, _)
MapBatches(pl, batches, n, m) ==
    IF n = 0 THEN {[outs |-> <<>>, map |-> <<>>, id |-> 1]}
    ELSE UNION {{[outs |-> Append(acc.outs, r.text), map |-> r.map, id |-> r.id] :
                    r \in {IF pl = "basic"
                           THEN processBatchBasic(batches[n], m, acc.map, acc.id)
                           ELSE processBatch(batches[n], m, acc.map, acc.id)}} :
                acc \in MapBatches(pl, batches, n - 1, m)}

\* part_000:90, script.js:90: the basic revision trims the input first
ReadInput(pl, value) == IF pl = "basic" THEN Trim(value) ELSE value

\* part_000:96-106, script.js:96-106: the try block of processText up to the join,
\* on a cleared table.  Result: [output, map, id].
RunPipeline(pl, m, input) ==
    The({[output |-> Join(r.outs, <<"\n", "\n">>), map |-> r.map, id |-> r.id] :
            r \in UNION {MapBatches(pl, batches, Len(batches), m) :
                            batches \in {splitIntoBatches(input)}}})

\* What processText displays for a text box value (the empty text for a blank one).
Process(pl, m, value) ==
    IF Trim(ReadInput(pl, value)) = <<>> THEN <<>>
    ELSE RunPipeline(pl, m, ReadInput(pl, value)).output

-----------------------------------------------------------------------------
(* Statistics and the integrity verifier *)

\* text.length: a marker element counts its characters
RECURSIVE SumLen(_)
SumLen(toks) == IF Len(toks) = 0 THEN 0 ELSE Len(Head(toks)) - 1 + SumLen(Tail(toks))

TextLen(s) == Len(s) + SumLen(SelectSeq(s, IsToken))

\* text.trim() ? text.trim().split(/\s+/).length : 0
WordCount(s) ==
    LET t == Trim(s)
    IN IF t = <<>> THEN 0
       ELSE 1 + Cardinality({k \in 1..(Len(t) - 1) : t[k] \in Space /\ t[k + 1] \notin Space})

\* text.split('\n').length
LineCount(s) == Len(SplitLines(s))

\* text.replace(/\s+/g, '')
NonSpace(s) == Drop(s, Space)

\* The characters of one element: a marker is spelled out.
PrefixChars(prefix) ==
    CASE prefix = "__PROTECTED_"       -> {"_", "P", "R", "O", "T", "E", "C", "D"}
      [] prefix = "__STRUCTURED_"      -> {"_", "S", "T", "R", "U", "C", "E", "D"}
      [] prefix = "__MULTILINE_BLOCK_" -> {"_", "M", "U", "L", "T", "I", "N", "E", "B", "O", "C", "K"}
      [] prefix = "__HTML_BLOCK_"      -> {"_", "H", "T", "M", "L", "B", "O", "C", "K"}

Prefixes == {"__PROTECTED_", "__STRUCTURED_", "__MULTILINE_BLOCK_", "__HTML_BLOCK_"}

DigitsOf(i) == IF i < 10 THEN {ToString(i)} ELSE {ToString(i \div 10), ToString(i % 10)}

CharsOf(c) ==
    IF ~IsToken(c) THEN {c}
    ELSE UNION {PrefixChars(pf) \cup DigitsOf(i) :
                   <<pf, i>> \in {x \in Prefixes \X (1..MaxTokenId) : Tok(x[1], x[2]) = c}}

\* new Set(text)
CharSet(s) == UNION {CharsOf(s[k]) : k \in 1..Len(s)}

\* script.js:299-317.  [words, chars, removed]
updateOutputStats(original, processed) ==
    [words |-> WordCount(processed),
     chars |-> TextLen(processed),
     removed |-> Max(0, LineCount(original) - LineCount(processed))]

ZeroStats == [words |-> 0, chars |-> 0, removed |-> 0]

\* script.js:319-348.  [word, char, content]
verifyContentIntegrity(original, processed) ==
    LET wordMatch == WordCount(original) = WordCount(processed)
        charMatch == TextLen(NonSpace(original)) = TextLen(NonSpace(processed))
        contentVerified ==
            IF charMatch THEN CharSet(NonSpace(original)) \subseteq CharSet(NonSpace(processed))
            ELSE FALSE
    IN [word |-> wordMatch, char |-> charMatch, content |-> contentVerified]

AllMatch == [word |-> TRUE, char |-> TRUE, content |-> TRUE]

-----------------------------------------------------------------------------
(* Input texts *)

Url      == <<"h", "t", "t", "p", ":", "/", "/", "x">>
Email    == <<"a", "@", "b", ".", "c", "c">>
CodeAmp  == <<BT, "$", "&", BT>>                  \* inline code holding $&
CodeGap  == <<BT, "a", " ", " ", "b", BT>>        \* inline code holding two spaces
FenceBlk == <<BT, BT, BT, "\n", "c", "\n", BT, BT, BT>>
PreOpen  == <<"<", "p", "r", "e", ">">>
PreClose == <<"<", "/", "p", "r", "e", ">">>
Hash     == <<"#", " ">>                          \* the start of a heading
Dash     == <<"-", " ">>                          \* the start of a list item
BlankLn  == <<"\n", "\n">>                        \* one blank line
BlankLns == <<"\n", " ", "\n", "\n">>             \* a white-space line and a blank line

\* The fragments the input texts of the pipeline specification are made of.
Frags ==
    << <<"a">>, <<" ">>, <<"\n">>, BlankLn, BlankLns, Url, Email, CodeAmp, CodeGap,
       FenceBlk, PreOpen, PreClose, Hash, Dash >>

RECURSIVE FragSeqs(_)
FragSeqs(n) ==
    IF n = 0 THEN {<<>>}
    ELSE LET shorter == FragSeqs(n - 1)
         IN shorter \cup {x \o Frags[k] : x \in shorter, k \in 1..Len(Frags)}

Inputs == FragSeqs(MaxFrags)

\* The texts typed into the text box of the user-interface specification.
UiInputs ==
    { <<>>, <<" ", "\n">>, <<"a", "\n", "b">>, Url, CodeAmp,
      Url \o BlankLn \o CodeGap, <<"a", "\n">> \o Url }

-----------------------------------------------------------------------------
(* The user interface.  copyToClipboard and the input statistics touch       *)
(* nothing the other handlers read, and are left out.  The catch block of    *)
(* processText (part_000:116-120) is left out too: no statement of the try   *)
(* block throws for a string input.                                          *)

NoCall == [kind |-> "none", mode |-> "A", input |-> <<>>]

\* A clearOutput that leaves the banner as it is.
KeptBanner == warningShown

\* script.js:70-87, part_000:70-87: the banner after clearOutput
ClearedBanner == FALSE

\* script.js:70-87, part_000:70-87
clearOutput ==
    /\ outputText' = <<>>
    /\ copyDisabled' = TRUE
    /\ warningShown' = ClearedBanner
    /\ outputStats' = ZeroStats
    /\ verification' = AllMatch

\* script.js:2-10, part_000:2-10.  The page starts with an empty text box and the
\* output area, counters, indicators and banner as clearOutput leaves them.
Init ==
    /\ pipeline \in Pipelines
    /\ mode = "A"
    /\ inputText = <<>>
    /\ outputText = <<>>
    /\ protectedMap = <<>>
    /\ nextTokenId = 1
    /\ copyDisabled = TRUE
    /\ warningShown = FALSE
    /\ outputStats = ZeroStats
    /\ verification = AllMatch
    /\ lastCall = NoCall

\* script.js:47-50, part_000:47-50: the 'input' listener of the text box
InputEvent(text) ==
    /\ inputText' = text
    /\ clearOutput
    /\ UNCHANGED <<pipeline, mode, protectedMap, nextTokenId, lastCall>>

\* script.js:41-45, part_000:41-45: the 'change' listener of the mode radios
ModeChange(m) ==
    /\ mode' = m
    /\ UNCHANGED <<pipeline, inputText, outputText, protectedMap, nextTokenId,
                   copyDisabled, warningShown, outputStats, verification, lastCall>>

\* script.js:64-68, part_000:64-68
clearInput ==
    /\ inputText' = <<>>
    /\ clearOutput
    /\ UNCHANGED <<pipeline, mode, protectedMap, nextTokenId, lastCall>>

\* script.js:91, part_000:91: if (!input.trim())
IsBlankInput(input) == Trim(input) = <<>>

\* script.js:350-358: the indicators are set, and the banner is shown on a mismatch
\* (nothing in verifyContentIntegrity hides it)
BannerAfterVerify(shown, v) == shown \/ ~v.word \/ ~v.char \/ ~v.content

\* script.js:89-121, part_000:89-121
processText ==
    LET input == ReadInput(pipeline, inputText)
    IN IF IsBlankInput(input)
       THEN /\ outputText' = <<>>
            /\ lastCall' = [kind |-> "blank", mode |-> mode, input |-> input]
            /\ UNCHANGED <<pipeline, mode, inputText, protectedMap, nextTokenId,
                           copyDisabled, warningShown, outputStats, verification>>
       ELSE \E r \in {RunPipeline(pipeline, mode, input)} :
               /\ protectedMap' = r.map
               /\ nextTokenId' = r.id
               /\ outputText' = r.output
               /\ copyDisabled' = FALSE
               /\ outputStats' = updateOutputStats(input, r.output)
               /\ verification' = verifyContentIntegrity(input, r.output)
               /\ warningShown' = BannerAfterVerify(warningShown, verification')
               /\ lastCall' = [kind |-> "run", mode |-> mode, input |-> input]
               /\ UNCHANGED <<pipeline, mode, inputText>>

Next ==
    \/ \E text \in UiInputs : InputEvent(text)
    \/ \E m \in Modes : ModeChange(m)
    \/ clearInput
    \/ processText

Spec == Init /\ [][Next]_vars

\* The pipeline specification: a text of Inputs is in the text box and a mode is
\* selected (the state after an input event and a mode change), and the process
\* button is clicked.
InitPipe ==
    /\ pipeline \in Pipelines
    /\ mode \in Modes
    /\ inputText \in Inputs
    /\ outputText = <<>>
    /\ protectedMap = <<>>
    /\ nextTokenId = 1
    /\ copyDisabled = TRUE
    /\ warningShown = FALSE
    /\ outputStats = ZeroStats
    /\ verification = AllMatch
    /\ lastCall = NoCall

NextPipe == processText

SpecPipe == InitPipe /\ [][NextPipe]_vars

\* The fragments of the input texts with carriage returns.
CrFrags == << <<"a">>, <<" ">>, <<"\n">>, <<"\r">>, Dash >>

RECURSIVE CrSeqs(_)
CrSeqs(n) ==
    IF n = 0 THEN {<<>>}
    ELSE LET shorter == CrSeqs(n - 1)
         IN shorter \cup {x \o CrFrags[k] : x \in shorter, k \in 1..Len(CrFrags)}

CrInputs == CrSeqs(MaxCrFrags)

\* The line ending specification: the pipeline specification, on texts that hold
\* carriage returns.
InitLineEnds ==
    /\ pipeline \in Pipelines
    /\ mode \in Modes
    /\ inputText \in CrInputs
    /\ outputText = <<>>
    /\ protectedMap = <<>>
    /\ nextTokenId = 1
    /\ copyDisabled = TRUE
    /\ warningShown = FALSE
    /\ outputStats = ZeroStats
    /\ verification = AllMatch
    /\ lastCall = NoCall

NextLineEnds == processText

SpecLineEnds == InitLineEnds /\ [][NextLineEnds]_vars

\* The lines normalizeWhitespaceWithStructure hands to a mode engine: a plain line
\* has no tab, no run of spaces and no trailing space (part_000:292-302), a line with
\* a marker is as the protector left it.
EngineLines ==
    << <<>>, <<"a">>, <<" ", "a">>, <<"b", " ", "c">>,
       <<Tok("__STRUCTURED_", 1)>>, <<Tok("__HTML_BLOCK_", 2), " ", " ", "a">> >>

RECURSIVE LineSeqs(_)
LineSeqs(n) ==
    IF n = 1 THEN {<<EngineLines[k]>> : k \in 1..Len(EngineLines)}
    ELSE LET shorter == LineSeqs(n - 1)
         IN shorter \cup {Append(x, EngineLines[k]) : x \in shorter, k \in 1..Len(EngineLines)}

EngineTexts == {Join(ls, <<"\n">>) : ls \in LineSeqs(MaxLines)}

\* The mode engine specification: one step of processBatch on its own, the switch
\* of part_000:135-149.  inputText holds the normalized text of a batch and
\* outputText receives what the engine of the selected mode returns for it.
InitEngine ==
    /\ pipeline = "structured"
    /\ mode \in KnownModes
    /\ inputText \in EngineTexts
    /\ outputText = <<>>
    /\ protectedMap = <<>>
    /\ nextTokenId = 1
    /\ copyDisabled = TRUE
    /\ warningShown = FALSE
    /\ outputStats = ZeroStats
    /\ verification = AllMatch
    /\ lastCall = NoCall

applyModeStep ==
    /\ outputText' = ApplyModeWithStructure(mode, inputText)
    /\ lastCall' = [kind |-> "engine", mode |-> mode, input |-> inputText]
    /\ UNCHANGED <<pipeline, mode, inputText, protectedMap, nextTokenId, copyDisabled,
                   warningShown, outputStats, verification>>

NextEngine == applyModeStep

SpecEngine == InitEngine /\ [][NextEngine]_vars

-----------------------------------------------------------------------------
(* What the properties below talk about *)

\* The last processText call ran the pipeline (the input was not blank).
Ran == lastCall.kind = "run"

\* The same, and the selected mode is one of the three radio buttons.
RanKnown == Ran /\ lastCall.mode \in KnownModes

\* sub occurs in s as a contiguous piece.
Occurs(sub, s) ==
    \E k \in 0..(Len(s) - Len(sub)) : SubSeq(s, k + 1, k + Len(sub)) = sub

\* The number of occurrences of the element c in s.
Count(c, s) == Cardinality({k \in 1..Len(s) : s[k] = c})

\* The whole of s is one match of re.
Whole(re, s) == Len(s) > 0 /\ Match(re, s, 1) = Len(s) + 1

\* The table entries that hold a URL, an email address or an inline-code span.
InlineEntries ==
    {k \in 1..Len(protectedMap) :
        \/ Whole(urlRegex, protectedMap[k].original)
        \/ Whole(emailRegex, protectedMap[k].original)
        \/ Whole(inlineCode, protectedMap[k].original)}

-----------------------------------------------------------------------------
(* Properties of one run of the pipeline (SpecPipe) *)

\* C1: after a run, in any mode, the displayed output holds no token marker.
C1_TokenResolution == Ran => ~Includes(outputText, AllTokens)

\* C2: after a run, every URL, email address and inline-code span the protector
\* stored occurs in the displayed output exactly as it was in the input.
C2_ProtectedVerbatim ==
    RanKnown => \A k \in InlineEntries : Occurs(protectedMap[k].original, outputText)

\* C3: after a run, every non-white-space character occurs in the displayed output
\* as many times as in the input (a marker in the output is a run of characters the
\* input does not hold).
C3_NonSpaceMultiset ==
    RanKnown =>
        \A c \in {outputText[k] : k \in 1..Len(outputText)}
                    \cup {lastCall.input[k] : k \in 1..Len(lastCall.input)} :
            c \in Space \/ Count(c, outputText) = Count(c, lastCall.input)

\* C4: processing the displayed output again, in the same mode, gives it back.
C4_Idempotence ==
    RanKnown => Process(pipeline, lastCall.mode, outputText) = outputText

\* C5: when the input is a batch, one blank line and a batch, the displayed output
\* is the two batches processed in separate calls, joined by one blank line.
C5_BatchIndependence ==
    RanKnown =>
        \A bs \in {splitIntoBatches(lastCall.input)} :
            (Len(bs) = 2 /\ lastCall.input = bs[1] \o BlankLn \o bs[2])
                => outputText = Process(pipeline, lastCall.mode, bs[1]) \o BlankLn
                                    \o Process(pipeline, lastCall.mode, bs[2])

\* The batches as processText joins them: the outputs of processBatch, in order.
ProcessedBatches ==
    The(MapBatches(pipeline, splitIntoBatches(lastCall.input),
                   Len(splitIntoBatches(lastCall.input)), lastCall.mode)).outs

\* A blank line: an empty line or a line of white space only.
IsBlankLine(line) == Trim(line) = <<>>

\* No two consecutive lines of the text are blank.
NoBlankPair(text) ==
    \A ls \in {SplitLines(text)} :
        \A j \in 1..(Len(ls) - 1) : ~(IsBlankLine(ls[j]) /\ IsBlankLine(ls[j + 1]))

\* C6: after a run, in any mode, the displayed output is the processed batches in
\* input order with exactly one blank line between two of them, it never holds two
\* consecutive blank lines, and no processed batch is empty or holds a blank line
\* (at its beginning, at its end or in between).
C6_BatchJoin ==
    Ran =>
        \A outs \in {ProcessedBatches} :
            /\ Len(outs) = Len(splitIntoBatches(lastCall.input))
            /\ outputText = Join(outs, BlankLn)
            /\ NoBlankPair(outputText)
            /\ \A k \in 1..Len(outs) :
                  \A ls \in {SplitLines(outs[k])} :
                      \A j \in 1..Len(ls) : ~IsBlankLine(ls[j])

\* C7: processText does not run the pipeline under a mode that is none of A, B, C.
C7_UnknownModeRejected == Ran => lastCall.mode \in KnownModes

\* C8: when a marker is left in the text after restoration, processText displays the
\* input as it was, and shows the warning banner.
C8_UnresolvedFallback ==
    (Ran /\ Includes(RunPipeline(pipeline, lastCall.mode, lastCall.input).output, AllTokens))
        => (outputText = lastCall.input /\ warningShown)

\* The lines of the text, trimmed, joined by one space (a run of spaces inside a
\* line counts as one space).
TrimmedLinesJoined(text) ==
    CollapseRuns(Join([k \in 1..Len(SplitLines(text)) |-> Trim(SplitLines(text)[k])], <<" ">>),
                 {" "})

\* C9: in mode C, for one batch of plain lines (nothing protected, no blank line),
\* the displayed output is the trimmed lines joined by exactly one space.
C9_HardNormalizeJoin ==
    (/\ Ran
     /\ lastCall.mode = "C"
     /\ protectedMap = <<>>
     /\ \A ls \in {SplitLines(lastCall.input)} : \A k \in 1..Len(ls) : ~IsBlankLine(ls[k]))
        => outputText = TrimmedLinesJoined(lastCall.input)

-----------------------------------------------------------------------------
(* Properties of the user interface (Spec) *)

\* C10: a processText call on an empty or white-space input, after any sequence of
\* events and in any mode, leaves the output empty, the output counters at zero and
\* the banner hidden, and does not touch the protection table or the token counter.
C10_BlankInput ==
    [][(IsBlankInput(ReadInput(pipeline, inputText)) /\ processText)
          => /\ outputText' = <<>>
             /\ outputStats' = ZeroStats
             /\ ~warningShown'
             /\ protectedMap' = protectedMap
             /\ nextTokenId' = nextTokenId]_vars

\* A call on a white-space input after a run that left an entry in the table.
C10_Witness ==
    /\ lastCall.kind = "blank"
    /\ inputText # <<>>
    /\ protectedMap # <<>>
    /\ nextTokenId > 1

-----------------------------------------------------------------------------
(* Blocks, the table and the mode engines *)

\* The pieces of the text that one of the three block rules matches.
BlockSpans(text) ==
    UNION {{SubSeq(text, ms[j][1], ms[j][2] - 1) : j \in 1..Len(ms)} :
              ms \in {Leftmost(Candidates(re, text), 1) :
                         re \in {codeBlockRegex, htmlBlockRegex, scriptStyleRegex}}}

\* C11: after a run of the structure-aware pipeline in mode A, B or C, every fenced
\* code block and every block-level HTML element of the input is stored whole under
\* one block token and occurs in the displayed output exactly as it was.
C11_BlockOpaque ==
    (RanKnown /\ pipeline = "structured") =>
        \A span \in BlockSpans(lastCall.input) :
            /\ Occurs(span, outputText)
            /\ \E k \in 1..Len(protectedMap) :
                  /\ protectedMap[k].token \in MultilineTokens \cup HtmlTokens
                  /\ protectedMap[k].original = span

\* A mode engine ran on its own, in mode m.
EngineRan(m) == lastCall.kind = "engine" /\ lastCall.mode = m

\* The lines of a text an engine returned (none for the empty text).
OutLines(text) == IF text = <<>> THEN <<>> ELSE SplitLines(text)

\* A plain line: no marker on it, and not blank.
IsPlain(line) == ~IsProtectedLine(line) /\ ~IsBlankLine(line)

\* The last line of the run of plain lines that holds line k.
PlainRunEnd(lines, k) ==
    CHOOSE j \in k..Len(lines) :
        /\ \A j2 \in k..j : IsPlain(lines[j2])
        /\ j = Len(lines) \/ ~IsPlain(lines[j + 1])

\* Where a line of the result comes from: a line with a marker, or the first line
\* of a maximal run of plain lines.
ItemStarts(lines) ==
    Positions(lines, LAMBDA k : \/ IsProtectedLine(lines[k])
                                \/ IsPlain(lines[k]) /\ (k = 1 \/ ~IsPlain(lines[k - 1])))

\* The line of the result that comes from there.
Item(lines, k) ==
    IF IsProtectedLine(lines[k]) THEN lines[k]
    ELSE Join([j \in 1..(PlainRunEnd(lines, k) - k + 1) |-> Trim(lines[k + j - 1])], <<" ">>)

\* C12: what processModeAWithStructure returns for normalized lines: its non-blank
\* lines are, in order, the lines with a marker, unchanged, and one line for every
\* maximal run of plain lines, their trimmed contents joined by single spaces; no
\* two consecutive lines are blank, and neither the first nor the last line is.
C12_SingleParaEngine ==
    EngineRan("A") =>
        \A lines \in {SplitLines(lastCall.input)} :
            \A out \in {OutLines(outputText)} :
                /\ SelectSeq(out, LAMBDA l : ~IsBlankLine(l))
                      = [j \in 1..Len(ItemStarts(lines)) |-> Item(lines, ItemStarts(lines)[j])]
                /\ \A j \in 1..(Len(out) - 1) : ~(IsBlankLine(out[j]) /\ IsBlankLine(out[j + 1]))
                /\ Len(out) > 0 => ~IsBlankLine(out[1]) /\ ~IsBlankLine(out[Len(out)])

\* The engine of mode A ran on a run of two plain lines, blank lines, and a line
\* that holds a marker next to other text.
C12_Witness ==
    /\ EngineRan("A")
    /\ \E lines \in {SplitLines(lastCall.input)} :
          /\ \E k \in 1..(Len(lines) - 1) : IsPlain(lines[k]) /\ IsPlain(lines[k + 1])
          /\ \E k \in 1..Len(lines) : IsBlankLine(lines[k])
          /\ \E k \in 1..Len(lines) : IsProtectedLine(lines[k]) /\ Len(lines[k]) > 1
    /\ Len(OutLines(outputText)) = 3

\* What the mode engine returns for each batch of the input: the batch protected
\* on a table of its own, normalized, and handed to the engine of mode m.
EngineOutputs(pl, m, input) ==
    [k \in 1..Len(splitIntoBatches(input)) |->
        IF pl = "basic"
        THEN ApplyMode(m, normalizeWhitespace(
                 protectContent([text |-> splitIntoBatches(input)[k],
                                 map |-> <<>>, id |-> 1]).text))
        ELSE ApplyModeWithStructure(m, normalizeWhitespaceWithStructure(
                 protectStructureAndContent([text |-> splitIntoBatches(input)[k],
                                             map |-> <<>>, id |-> 1]).text))]

\* The line of the output holds a non-blank line of some protected original.
CarriesProtected(line) ==
    \E k \in 1..Len(protectedMap) :
        \E ls \in {SplitLines(protectedMap[k].original)} :
            \E j \in 1..Len(ls) : ~IsBlankLine(ls[j]) /\ Occurs(Trim(ls[j]), line)

C14_NoNestedProtection ==
    Ran => \A k \in 1..Len(protectedMap) : ~Includes(protectedMap[k].original, AllTokens)

\* The table and the counter are those of one call: the k-th entry is under a token
\* of id k, the counter is one past the last id, and the entries are the ones a call
\* on the same input and mode makes on a new instance.
TableOfOneCall ==
    /\ nextTokenId = Len(protectedMap) + 1
    /\ \A k \in 1..Len(protectedMap) :
          protectedMap[k].token \in {Tok(prefix, k) : prefix \in Prefixes}
    /\ \A k, k2 \in 1..Len(protectedMap) :
          protectedMap[k].token = protectedMap[k2].token => k = k2
    /\ protectedMap = RunPipeline(pipeline, lastCall.mode, lastCall.input).map

\* C15: in any sequence of events, after a processText call on a non-blank input,
\* and until the next call, the table and the counter are those of that one call:
\* ids 1, 2, ... in the order issued, one entry per token, nothing of an earlier
\* call, nothing removed.
C15_TablePerCall == Ran => TableOfOneCall

\* A run that issued a token, after an earlier run on the same text whose warning
\* is still on the page.
C15_Witness ==
    /\ Ran
    /\ warningShown
    /\ verification = AllMatch
    /\ Len(protectedMap) > 0

\* C16: after a run, the displayed output holds no carriage return, and it is what
\* the same run displays for the input with every "\r\n" and every lone "\r"
\* written as "\n".
C16_LineEndsUnified ==
    Ran =>
        /\ \A k \in 1..Len(outputText) : outputText[k] # "\r"
        /\ outputText = Process(pipeline, lastCall.mode, UnifyLineEndings(lastCall.input))

-----------------------------------------------------------------------------
(* The verifier, the two paragraph modes, and the banner *)

\* C17: after a run, the content indicator shows a match only if the word counts
\* are equal, the numbers of non-white-space characters are equal and every
\* non-white-space character of the input occurs in the output; and whatever the
\* indicators show, the displayed output is what the pipeline returned.
C17_ContentMatchAllThree ==
    Ran =>
        /\ verification.content =>
              /\ WordCount(lastCall.input) = WordCount(outputText)
              /\ TextLen(NonSpace(lastCall.input)) = TextLen(NonSpace(outputText))
              /\ CharSet(NonSpace(lastCall.input)) \subseteq CharSet(NonSpace(outputText))
        /\ outputText = RunPipeline(pipeline, lastCall.mode, lastCall.input).output

\* C18: after a run of the structure-aware pipeline in mode A or in mode B, the
\* displayed output is what the other of the two modes displays for the same input.
C18_ParagraphModesAgree ==
    (Ran /\ pipeline = "structured" /\ lastCall.mode \in {"A", "B"}) =>
        /\ outputText = Process(pipeline, "A", lastCall.input)
        /\ outputText = Process(pipeline, "B", lastCall.input)

\* A run of the structure-aware pipeline in mode B that merged lines of the input.
C18_Witness ==
    /\ Ran
    /\ pipeline = "structured"
    /\ lastCall.mode = "B"
    /\ Occurs(<<"a", "\n", "a">>, lastCall.input)
    /\ Occurs(<<"a", " ", "a">>, outputText)

\* C19: in any sequence of events, when the last run passed the three checks of the
\* verifier, the banner is hidden and the three indicators show a match.
C19_NoStaleWarning ==
    (Ran /\ verifyContentIntegrity(lastCall.input, outputText) = AllMatch)
        => (~warningShown /\ verification = AllMatch)

=============================================================================
